---- MODULE Spec2Model ----
(***************************************************************************)
(* Ventilator-Associated Pneumonia (VAP) risk assessment.                  *)
(*                                                                         *)
(* Three programs are modelled:                                            *)
(*   - the additive scorer of strategy3.py and of strategy_2.py            *)
(*     (input_patient_data, calculate_vap_risk, determine_risk_level,      *)
(*     main), specification SpecScorer;                                    *)
(*   - batch_process_patients of both scorers, specification SpecBatch;    *)
(*   - the layered decision tree of strategy_1_decision_tree.py,           *)
(*     specification SpecTree.                                             *)
(*                                                                         *)
(* Text constants are copied from the source; characters outside ASCII     *)
(* are transliterated (>= for the greater-or-equal sign, deg for the       *)
(* degree sign, C for the degree-Celsius sign, 10^9 for the superscript).  *)
(***************************************************************************)
EXTENDS Integers, Sequences, FiniteSets, TLC

VARIABLES
    \* ---- scorer, single patient (strategy3.main / strategy_2.main) ----
    variant,          \* which script runs: "strategy3" or "strategy_2"
    pc,               \* position in main / calculate_vap_risk; the positions after
                      \* the last statement are "reported", "returned", "error",
                      \* "ineligible", "batch_printed" and "invalid_mode"
    patient_data,     \* dict returned by input_patient_data
    risk_score,       \* local risk_score of calculate_vap_risk, then of main
    risk_assessment,  \* dict returned by determine_risk_level
    output,           \* what main printed: a report, an error or a refusal
    \* ---- batch_process_patients ----
    batch_variant,    \* which script's batch_process_patients runs
    batch_data,       \* the argument
    idx,              \* enumerate index of the next record (1-based)
    batch_results,    \* the list being built
    batch_pc,         \* "loop" while iterating, "returned" after the return
    \* ---- decision tree (strategy_1_decision_tree.main) ----
    tpc,              \* position in the while-True loop
    age, ventilation_ge72, chest_imaging,
    fever, wbc_abnormal, oxygen_abnormal, age_ge65, has_complication,
    risk_result,      \* dict built by the layered decision
    asked,            \* prompts issued since the current pass started
    report,           \* the report printed for the current pass
    last,             \* gate answers and risk_result of the previous pass
    reported          \* the risk levels printed so far in this session

scorerVars == <<variant, pc, patient_data, risk_score, risk_assessment, output>>
batchVars  == <<batch_variant, batch_data, idx, batch_results, batch_pc>>
treeVars   == <<tpc, age, ventilation_ge72, chest_imaging, fever, wbc_abnormal,
                oxygen_abnormal, age_ge65, has_complication, risk_result,
                asked, report, last, reported>>
vars == <<scorerVars, batchVars, treeVars>>

\* A Python local that has not been assigned yet.
Unset == "<unset>"

(***************************************************************************)
(* Input domains.                                                          *)
(***************************************************************************)
Variants == {"strategy3", "strategy_2"}

valid_routes      == {"orotracheal", "nasotracheal"}
valid_antiseptics == {"chlorhexidine", "povidone-iodine", "none"}
valid_booleans    == {"yes", "no"}

\* Strings a user (or a batch caller) can supply besides the valid ones.
RouteInputs      == valid_routes \cup {"oral"}
AntisepticInputs == valid_antiseptics \cup {"iodine"}
DrainageInputs   == valid_booleans \cup {"maybe"}
\* The four yes/no answers input_patient_data stores without validating them.
BooleanInputs    == valid_booleans \cup {"maybe"}
\* Text typed at a numeric prompt that int() rejects.
NonNumericInputs == {"abc", "4x", ""}

\* Both sides of every threshold the code compares against (24, 72 hours;
\* 30, 45 degrees; 18 years), a negative duration, and the scenario values.
DurationInputs  == {-1, 23, 24, 48, 72, 73, 96}
ElevationInputs == {25, 29, 30, 44, 45}
AgeInputs       == {17, 18, 52, 68}

PatientInputs ==
    [age : AgeInputs,
     intubation_route : RouteInputs,
     ventilation_duration_h : DurationInputs,
     subglottic_drainage : DrainageInputs,
     bed_head_elevation_deg : ElevationInputs,
     closed_suction_system : BooleanInputs,
     oral_antiseptic : AntisepticInputs,
     fever : BooleanInputs,
     leukocytosis : BooleanInputs,
     chest_radiograph : BooleanInputs]

\* input_patient_data returns p: none of its three checks raises.  The other
\* four yes/no fields are stored as typed.
IsValidPatient(p) ==
    /\ p.intubation_route \in valid_routes
    /\ p.oral_antiseptic \in valid_antiseptics
    /\ p.subglottic_drainage \in valid_booleans

(***************************************************************************)
(* strategy3.py: calculate_vap_risk.  Each operator is one section of the  *)
(* function and gives the amount that section adds to risk_score.          *)
(***************************************************************************)
route_points_s3(p) ==
    IF p.intubation_route = "nasotracheal" THEN 3
    ELSE IF p.intubation_route = "orotracheal" THEN -2
    ELSE 0

duration_points_ge72_s3(p) ==
    IF p.ventilation_duration_h >= 72 THEN 3
    ELSE IF 24 <= p.ventilation_duration_h /\ p.ventilation_duration_h <= 72 THEN 1
    ELSE 0

duration_points_s3(p) ==
    IF p.ventilation_duration_h > 72 THEN 3
    ELSE IF 24 <= p.ventilation_duration_h /\ p.ventilation_duration_h <= 72 THEN 1
    ELSE 0

drainage_points_s3(p) ==
    IF p.ventilation_duration_h > 72
    THEN (IF p.subglottic_drainage = "yes" THEN -2 ELSE 2)
    ELSE 0

elevation_points_s3(p) ==
    IF p.bed_head_elevation_deg >= 45 THEN -2
    ELSE IF p.bed_head_elevation_deg < 30 THEN 2
    ELSE 0

suction_points_s3(p) ==
    IF p.closed_suction_system = "yes" THEN -1 ELSE 1

antiseptic_points_ignored_s3(p) == 0

antiseptic_points_s3(p) ==
    IF p.oral_antiseptic \in {"chlorhexidine", "povidone-iodine"} THEN -1 ELSE 0

signs_points_radiograph4_s3(p) ==
    (IF p.fever = "yes" THEN 2 ELSE 0)
    + (IF p.leukocytosis = "yes" THEN 2 ELSE 0)
    + (IF p.chest_radiograph = "yes" THEN 4 ELSE 0)

signs_points_s3(p) ==
    (IF p.fever = "yes" THEN 2 ELSE 0)
    + (IF p.leukocytosis = "yes" THEN 2 ELSE 0)
    + (IF p.chest_radiograph = "yes" THEN 3 ELSE 0)

Max2(a, b) == IF a >= b THEN a ELSE b
Min2(a, b) == IF a <= b THEN a ELSE b

\* return max(0, min(risk_score, 20))
clamp_no_floor_s3(s) == Min2(s, 20)
clamp_s3(s) == Max2(0, Min2(s, 20))

\* risk_score just before the return statement
raw_score_s3(p) ==
    LET s0 == 0
        s1 == s0 + route_points_s3(p)
        s2 == s1 + duration_points_s3(p)
        s3 == s2 + drainage_points_s3(p)
        s4 == s3 + elevation_points_s3(p)
        s5 == s4 + suction_points_s3(p)
        s6 == s5 + antiseptic_points_s3(p)
        s7 == s6 + signs_points_s3(p)
    IN  s7

calculate_vap_risk_s3(p) == clamp_s3(raw_score_s3(p))

(***************************************************************************)
(* strategy_2.py: calculate_vap_risk.                                      *)
(***************************************************************************)
route_points_s2(p) ==
    IF p.intubation_route = "nasotracheal" THEN 3
    ELSE IF p.intubation_route = "orotracheal" THEN -2
    ELSE 0

duration_points_ge72_s2(p) ==
    IF p.ventilation_duration_h >= 72 THEN 3
    ELSE IF 24 <= p.ventilation_duration_h /\ p.ventilation_duration_h <= 72 THEN 1
    ELSE 0

duration_points_s2(p) ==
    IF p.ventilation_duration_h > 72 THEN 3
    ELSE IF 24 <= p.ventilation_duration_h /\ p.ventilation_duration_h <= 72 THEN 1
    ELSE 0

drainage_points_s2(p) ==
    IF p.ventilation_duration_h > 72
    THEN (IF p.subglottic_drainage = "yes" THEN -2 ELSE 2)
    ELSE 0

elevation_points_s2(p) ==
    IF p.bed_head_elevation_deg >= 45 THEN -2
    ELSE IF p.bed_head_elevation_deg < 30 THEN 2
    ELSE 0

suction_points_s2(p) ==
    IF p.closed_suction_system = "yes" THEN -1 ELSE 1

antiseptic_points_s2(p) ==
    IF p.oral_antiseptic \in {"chlorhexidine", "povidone-iodine"} THEN -1 ELSE 0

signs_points_s2(p) ==
    (IF p.fever = "yes" THEN 2 ELSE 0)
    + (IF p.leukocytosis = "yes" THEN 2 ELSE 0)
    + (IF p.chest_radiograph = "yes" THEN 3 ELSE 0)

clamp_s2(s) == Max2(0, Min2(s, 20))

raw_score_s2(p) ==
    LET s0 == 0
        s1 == s0 + route_points_s2(p)
        s2 == s1 + duration_points_s2(p)
        s3 == s2 + drainage_points_s2(p)
        s4 == s3 + elevation_points_s2(p)
        s5 == s4 + suction_points_s2(p)
        s6 == s5 + antiseptic_points_s2(p)
        s7 == s6 + signs_points_s2(p)
    IN  s7

calculate_vap_risk_s2(p) == clamp_s2(raw_score_s2(p))

(***************************************************************************)
(* determine_risk_level of both scripts.                                   *)
(***************************************************************************)
LowRecommendation_s3 ==
    "   - Routine mechanical ventilation care; replace heat and moisture exchangers weekly (if not contaminated)\n   - Monitor WBC count and chest imaging once weekly\n   - Immediately recheck relevant indicators if fever (>=38C) occurs"

ModerateRecommendation_s3 ==
    "   - Closely monitor mechanical ventilation duration; prepare for subglottic drainage if >=72h is expected\n   - Recheck WBC count and oxygenation index every 2 days\n   - Maintain head-of-bed elevation at 30-45deg; avoid supine position\n   - Implement oral antiseptic rinses (chlorhexidine/povidone-iodine) as preventive measure"

HighRecommendation_s3 ==
    "   - Immediately initiate subglottic secretion drainage (for patients with ventilation >=72h)\n   - Maintain head-of-bed elevation at 45deg (or as close as possible if contraindicated)\n   - Use a closed endotracheal suctioning system; replace heat and moisture exchangers every 5-7 days\n   - Daily monitoring of body temperature, WBC count, and chest imaging changes\n   - Consider rotating beds if feasible to reduce pulmonary complications"

determine_risk_level_open12_s3(risk_score_arg) ==
    IF risk_score_arg < 5 THEN
        [risk_level |-> "Low Risk",
         case_control_ratio |-> "Cases (8, 3.2%); Controls (242, 96.8%)",
         explanation |-> "Patient presents with minimal risk factors for VAP development",
         recommendation |-> LowRecommendation_s3]
    ELSE IF 5 <= risk_score_arg /\ risk_score_arg < 12 THEN
        [risk_level |-> "Moderate Risk",
         case_control_ratio |-> "Cases (48, 31.5%); Controls (104, 68.5%)",
         explanation |-> "Patient has several risk factors that warrant closer monitoring",
         recommendation |-> ModerateRecommendation_s3]
    ELSE
        [risk_level |-> "High Risk",
         case_control_ratio |-> "Cases (156, 78.4%); Controls (43, 21.6%)",
         explanation |-> "Patient meets multiple high-risk criteria for VAP development",
         recommendation |-> HighRecommendation_s3]

determine_risk_level_s3(risk_score_arg) ==
    IF risk_score_arg < 5 THEN
        [risk_level |-> "Low Risk",
         case_control_ratio |-> "Cases (8, 3.2%); Controls (242, 96.8%)",
         explanation |-> "Patient presents with minimal risk factors for VAP development",
         recommendation |-> LowRecommendation_s3]
    ELSE IF 5 <= risk_score_arg /\ risk_score_arg <= 12 THEN
        [risk_level |-> "Moderate Risk",
         case_control_ratio |-> "Cases (48, 31.5%); Controls (104, 68.5%)",
         explanation |-> "Patient has several risk factors that warrant closer monitoring",
         recommendation |-> ModerateRecommendation_s3]
    ELSE
        [risk_level |-> "High Risk",
         case_control_ratio |-> "Cases (156, 78.4%); Controls (43, 21.6%)",
         explanation |-> "Patient meets multiple high-risk criteria for VAP development",
         recommendation |-> HighRecommendation_s3]

determine_risk_level_s2(risk_score_arg) ==
    IF risk_score_arg < 5 THEN
        [risk_level |-> "Low Risk",
         recommendation |-> "Maintain standard VAP prevention measures (per base_paper.pdf): use orotracheal intubation if possible, keep bed head elevated >=45deg, and perform regular ventilator circuit checks (change only if soiled/damaged)."]
    ELSE IF 5 <= risk_score_arg /\ risk_score_arg <= 12 THEN
        [risk_level |-> "Medium Risk",
         recommendation |-> "Intensify prevention (per base_paper.pdf): implement oral antiseptic rinses (chlorhexidine/povidone-iodine), ensure closed suction system use, and monitor for signs of sinusitis. Continue bed head elevation >=45deg."]
    ELSE
        [risk_level |-> "High Risk",
         recommendation |-> "Urgent intervention (per base_paper.pdf): initiate subglottic secretion drainage (if ventilation >72h), optimize bed head elevation to 45deg, use rotating beds if feasible, and closely monitor infection markers (fever, leukocytosis, chest radiographs). Avoid bacterial filters (not recommended in base_paper.pdf)."]

\* Dispatch on the script that runs.
Points(v, step, p) ==
    IF v = "strategy3" THEN
        CASE step = "route"      -> route_points_s3(p)
          [] step = "duration"   -> duration_points_s3(p)
          [] step = "drainage"   -> drainage_points_s3(p)
          [] step = "elevation"  -> elevation_points_s3(p)
          [] step = "suction"    -> suction_points_s3(p)
          [] step = "antiseptic" -> antiseptic_points_s3(p)
          [] step = "signs"      -> signs_points_s3(p)
    ELSE
        CASE step = "route"      -> route_points_s2(p)
          [] step = "duration"   -> duration_points_s2(p)
          [] step = "drainage"   -> drainage_points_s2(p)
          [] step = "elevation"  -> elevation_points_s2(p)
          [] step = "suction"    -> suction_points_s2(p)
          [] step = "antiseptic" -> antiseptic_points_s2(p)
          [] step = "signs"      -> signs_points_s2(p)

Clamp(v, s) == IF v = "strategy3" THEN clamp_s3(s) ELSE clamp_s2(s)

calculate_vap_risk(v, p) ==
    IF v = "strategy3" THEN calculate_vap_risk_s3(p) ELSE calculate_vap_risk_s2(p)

determine_risk_level(v, s) ==
    IF v = "strategy3" THEN determine_risk_level_s3(s) ELSE determine_risk_level_s2(s)

(***************************************************************************)
(* batch_process_patients of both scripts.                                 *)
(***************************************************************************)
\* Whether calculate_vap_risk / determine_risk_level raise ValueError on p.
\* Neither function of either script contains a raise statement, and every
\* comparison they make is defined for every string and integer.
raises_ValueError_s3(p) == FALSE
raises_ValueError_s2(p) == FALSE

raises_ValueError(v, p) ==
    IF v = "strategy3" THEN raises_ValueError_s3(p) ELSE raises_ValueError_s2(p)

\* The body of the for loop: the dict appended for record number i.
batch_entry_zero_based(v, i, patient) ==
    IF raises_ValueError(v, patient) THEN
        [patient_id |-> i - 1, error |-> "Invalid input: "]
    ELSE
        LET score == calculate_vap_risk(v, patient)
            assessment == determine_risk_level(v, score)
        IN  [patient_id |-> i - 1,
             age |-> patient.age,
             ventilation_duration_h |-> patient.ventilation_duration_h,
             risk_score |-> score,
             risk_level |-> assessment.risk_level,
             recommendation |-> assessment.recommendation]

batch_entry(v, i, patient) ==
    IF raises_ValueError(v, patient) THEN
        [patient_id |-> i, error |-> "Invalid input: "]
    ELSE
        LET score == calculate_vap_risk(v, patient)
            assessment == determine_risk_level(v, score)
        IN  [patient_id |-> i,
             age |-> patient.age,
             ventilation_duration_h |-> patient.ventilation_duration_h,
             risk_score |-> score,
             risk_level |-> assessment.risk_level,
             recommendation |-> assessment.recommendation]

batch_process_patients(v, data) ==
    [i \in 1..Len(data) |-> batch_entry(v, i, data[i])]

\* strategy_2.main: sample_batch
ScenarioA ==
    [age |-> 68, intubation_route |-> "nasotracheal", ventilation_duration_h |-> 96,
     subglottic_drainage |-> "no", bed_head_elevation_deg |-> 25,
     closed_suction_system |-> "no", oral_antiseptic |-> "none",
     fever |-> "yes", leukocytosis |-> "yes", chest_radiograph |-> "yes"]

ScenarioB ==
    [age |-> 52, intubation_route |-> "orotracheal", ventilation_duration_h |-> 48,
     subglottic_drainage |-> "no", bed_head_elevation_deg |-> 45,
     closed_suction_system |-> "yes", oral_antiseptic |-> "chlorhexidine",
     fever |-> "no", leukocytosis |-> "no", chest_radiograph |-> "no"]

sample_batch == <<ScenarioA, ScenarioB>>

(***************************************************************************)
(* input_patient_data and main of both scripts.                            *)
(***************************************************************************)
\* str.capitalize(): the first character in upper case, the rest in lower
\* case.  The strings reaching it are already lower case (.strip().lower()),
\* so only the first character changes; tabulated on the strings a route or
\* a yes/no field can hold.
Capitalize(str) ==
    CASE str = "orotracheal"  -> "Orotracheal"
      [] str = "nasotracheal" -> "Nasotracheal"
      [] str = "oral"         -> "Oral"
      [] str = "yes"          -> "Yes"
      [] str = "no"           -> "No"
      [] str = "maybe"        -> "Maybe"
      [] str = "n/a"          -> "N/a"

\* The ValueError message input_patient_data raises on p, or "" when it returns p.
validation_error(v, p) ==
    IF p.intubation_route \notin valid_routes THEN
        IF v = "strategy3"
        THEN "Intubation route must be 'orotracheal' or 'nasotracheal'"
        ELSE "Intubation route must be 'orotracheal' or 'nasotracheal' (per base_paper.pdf)"
    ELSE IF p.oral_antiseptic \notin valid_antiseptics THEN
        IF v = "strategy3"
        THEN "Oral antiseptic must be 'chlorhexidine', 'povidone-iodine', or 'none'"
        ELSE "Oral antiseptic must be 'chlorhexidine', 'povidone-iodine', or 'none' (per base_paper.pdf)"
    ELSE IF p.subglottic_drainage \notin valid_booleans THEN
        "Subglottic drainage input must be 'yes' or 'no'"
    ELSE ""

\* risk_index of the chart: 0 if risk_score < 5 else 1 if risk_score <= 12 else 2
risk_index(s) == IF s < 5 THEN 0 ELSE IF s <= 12 THEN 1 ELSE 2

generate_risk_report(v, p, s, a) ==
    IF v = "strategy3" THEN
        [kind |-> "report",
         age |-> p.age,
         ventilation_duration_h |-> p.ventilation_duration_h,
         intubation_route |-> Capitalize(p.intubation_route),
         chest_radiograph |-> Capitalize(p.chest_radiograph),
         risk_level |-> a.risk_level,
         risk_score |-> s,
         case_control_ratio |-> a.case_control_ratio,
         explanation |-> a.explanation,
         recommendation |-> a.recommendation,
         risk_index |-> risk_index(s)]
    ELSE
        [kind |-> "report",
         age |-> p.age,
         intubation_route |-> Capitalize(p.intubation_route),
         ventilation_duration_h |-> p.ventilation_duration_h,
         risk_score |-> s,
         risk_level |-> a.risk_level,
         recommendation |-> a.recommendation,
         risk_index |-> risk_index(s)]

\* Scores a caller may pass to determine_risk_level directly: the range of
\* calculate_vap_risk and a little beyond it on both sides.
ScoreArgs == -2 .. 22

\* Either main() of a script starts, or a caller is about to call the script's
\* determine_risk_level with a score of its own.
ScorerInit ==
    /\ variant \in Variants
    /\ \/ /\ pc = IF variant = "strategy_2" THEN "mode" ELSE "input"
          /\ risk_score = Unset
       \/ /\ pc = "call_determine"
          /\ risk_score \in ScoreArgs
    /\ patient_data = Unset
    /\ risk_assessment = Unset
    /\ output = Unset

\* strategy_2.main: mode = input(...); single / batch / anything else
SelectMode ==
    /\ pc = "mode"
    /\ \E mode \in {"single", "batch", "other"} :
          IF mode = "single" THEN
              /\ pc' = "input"
              /\ UNCHANGED output
          ELSE IF mode = "batch" THEN
              /\ output' = [kind |-> "batch",
                            results |-> batch_process_patients(variant, sample_batch)]
              /\ pc' = "batch_printed"
          ELSE
              /\ output' = [kind |-> "invalid_mode"]
              /\ pc' = "invalid_mode"
    /\ UNCHANGED <<variant, patient_data, risk_score, risk_assessment>>

\* str(e) of the ValueError int() raises on typed text that is not a number
int_error(typed) == "invalid literal for int() with base 10: '" \o typed \o "'"

\* patient_data = input_patient_data(); int() at a numeric prompt (taken
\* before any validation) or the validation may raise ValueError, and main
\* prints str(e).
InputPatientData ==
    /\ pc = "input"
    /\ \E p \in PatientInputs, typed \in NonNumericInputs, numbers_parse \in BOOLEAN :
          IF ~numbers_parse THEN
              /\ output' = [kind |-> "error", message |-> int_error(typed)]
              /\ pc' = "error"
              /\ UNCHANGED patient_data
          ELSE IF ~IsValidPatient(p) THEN
              /\ output' = [kind |-> "error", message |-> validation_error(variant, p)]
              /\ pc' = "error"
              /\ UNCHANGED patient_data
          ELSE
              /\ patient_data' = p
              /\ pc' = IF variant = "strategy3" THEN "age_gate" ELSE "route"
              /\ UNCHANGED output
    /\ UNCHANGED <<variant, risk_score, risk_assessment>>

\* strategy3.main: if patient_data["age"] < 18: print(...); return
AgeGate ==
    /\ pc = "age_gate"
    /\ IF patient_data.age < 18
       THEN /\ output' = [kind |-> "ineligible"]
            /\ pc' = "ineligible"
       ELSE /\ pc' = "route"
            /\ UNCHANGED output
    /\ UNCHANGED <<variant, patient_data, risk_score, risk_assessment>>

\* calculate_vap_risk, one action per section
CalcSection(step, next, before) ==
    /\ pc = step
    /\ risk_score' = before + Points(variant, step, patient_data)
    /\ pc' = next
    /\ UNCHANGED <<variant, patient_data, risk_assessment, output>>

CalcRoute      == CalcSection("route", "duration", 0)
CalcDuration   == CalcSection("duration", "drainage", risk_score)
CalcDrainage   == CalcSection("drainage", "elevation", risk_score)
CalcElevation  == CalcSection("elevation", "suction", risk_score)
CalcSuction    == CalcSection("suction", "antiseptic", risk_score)
CalcAntiseptic == CalcSection("antiseptic", "signs", risk_score)
CalcSigns      == CalcSection("signs", "return", risk_score)

\* return max(0, min(risk_score, 20)); main binds the result to its risk_score
CalcReturn ==
    /\ pc = "return"
    /\ risk_score' = Clamp(variant, risk_score)
    /\ pc' = "determine"
    /\ UNCHANGED <<variant, patient_data, risk_assessment, output>>

\* risk_assessment = determine_risk_level(risk_score)
DetermineRiskLevel ==
    /\ pc = "determine"
    /\ risk_assessment' = determine_risk_level(variant, risk_score)
    /\ pc' = "report"
    /\ UNCHANGED <<variant, patient_data, risk_score, output>>

\* determine_risk_level(risk_score) called on its own
CallDetermineRiskLevel ==
    /\ pc = "call_determine"
    /\ risk_assessment' = determine_risk_level(variant, risk_score)
    /\ output' = [kind |-> "returned"]
    /\ pc' = "returned"
    /\ UNCHANGED <<variant, patient_data, risk_score>>

\* generate_risk_report(patient_data, risk_score, risk_assessment)
GenerateRiskReport ==
    /\ pc = "report"
    /\ output' = generate_risk_report(variant, patient_data, risk_score, risk_assessment)
    /\ pc' = "reported"
    /\ UNCHANGED <<variant, patient_data, risk_score, risk_assessment>>

ScorerNext ==
    \/ SelectMode
    \/ InputPatientData
    \/ AgeGate
    \/ CalcRoute
    \/ CalcDuration
    \/ CalcDrainage
    \/ CalcElevation
    \/ CalcSuction
    \/ CalcAntiseptic
    \/ CalcSigns
    \/ CalcReturn
    \/ DetermineRiskLevel
    \/ CallDetermineRiskLevel
    \/ GenerateRiskReport

(***************************************************************************)
(* batch_process_patients as a loop, one iteration per step.               *)
(***************************************************************************)
MaxBatch == 3

\* Records a batch caller may pass: the two sample records, each with every
\* route string, valid or not, and each with an antiseptic string that is
\* not valid.
BatchPool ==
    {[base EXCEPT !.intubation_route = r] :
        base \in {ScenarioA, ScenarioB}, r \in RouteInputs}
    \cup {[base EXCEPT !.oral_antiseptic = a] :
        base \in {ScenarioA, ScenarioB}, a \in AntisepticInputs \ valid_antiseptics}

RECURSIVE SeqsUpTo(_, _)
SeqsUpTo(S, n) ==
    IF n = 0 THEN {<<>>}
    ELSE LET shorter == SeqsUpTo(S, n - 1)
         IN  shorter \cup {Append(q, x) : q \in {t \in shorter : Len(t) = n - 1}, x \in S}

BatchInit ==
    /\ batch_variant \in Variants
    /\ batch_data \in SeqsUpTo(BatchPool, MaxBatch)
    /\ idx = 1
    /\ batch_results = <<>>
    /\ batch_pc = "loop"

\* for idx, patient in enumerate(batch_data, 1): try ... except ValueError ...
BatchIteration ==
    /\ batch_pc = "loop"
    /\ idx <= Len(batch_data)
    /\ batch_results' = Append(batch_results, batch_entry(batch_variant, idx, batch_data[idx]))
    /\ idx' = idx + 1
    /\ UNCHANGED <<batch_variant, batch_data, batch_pc>>

\* return batch_results
BatchReturn ==
    /\ batch_pc = "loop"
    /\ idx > Len(batch_data)
    /\ batch_pc' = "returned"
    /\ UNCHANGED <<batch_variant, batch_data, idx, batch_results>>

BatchNext ==
    \/ BatchIteration
    \/ BatchReturn

(***************************************************************************)
(* strategy_1_decision_tree.py: main.                                      *)
(***************************************************************************)
\* What the user may type at a yes/no prompt (after strip().lower()).
YesNoInputs == {"yes", "no", "y"}

\* What the user may type at the age prompt.
TreeAgeInputs == {"abc", "17", "18", "70"}

\* str.isdigit() and int() on the age strings above
isdigit(str) == str \in {"17", "18", "70"}
int(str) == CASE str = "17" -> 17 [] str = "18" -> 18 [] str = "70" -> 70

\* The dicts assigned to risk_result, by the line that assigns them.
result_no_infiltrates ==
    [risk_level |-> "Low Risk",
     case_control_ratio |-> "Cases (8, 3.2%); Controls (242, 96.8%)",
     explanation |-> "No chest imaging infiltrates, which does not meet the core diagnostic criteria for VAP."]

result_symptoms ==
    [risk_level |-> "High Risk",
     case_control_ratio |-> "Cases (156, 78.4%); Controls (43, 21.6%)",
     explanation |-> "Chest imaging infiltrates + mechanical ventilation >=72h + fever/WBC abnormality, meeting VAP diagnostic criteria."]

result_oxygen_abnormal ==
    [risk_level |-> "Moderate-High Risk",
     case_control_ratio |-> "Cases (72, 54.2%); Controls (61, 45.8%)",
     explanation |-> "Chest imaging infiltrates + mechanical ventilation >=72h + abnormal oxygenation, indicating high VAP risk."]

result_no_symptoms ==
    [risk_level |-> "Moderate Risk",
     case_control_ratio |-> "Cases (35, 27.1%); Controls (94, 72.9%)",
     explanation |-> "Chest imaging infiltrates + mechanical ventilation >=72h, but no other symptoms; close monitoring required."]

result_elderly ==
    [risk_level |-> "Moderate Risk",
     case_control_ratio |-> "Cases (48, 31.5%); Controls (104, 68.5%)",
     explanation |-> "Chest imaging infiltrates + elderly/comorbidities; even with ventilation <72h, VAP vigilance is needed."]

result_imaging_only_as_low ==
    [risk_level |-> "Low Risk",
     case_control_ratio |-> "Cases (22, 14.3%); Controls (132, 85.7%)",
     explanation |-> "Chest imaging infiltrates, but ventilation <72h + no elderly/comorbidities; low VAP risk."]

result_imaging_only_mislabelled ==
    [risk_level |-> "Low to Moderate Risk",
     case_control_ratio |-> "Cases (22, 14.3%); Controls (132, 85.7%)",
     explanation |-> "Chest imaging infiltrates, but ventilation <72h + no elderly/comorbidities; low VAP risk."]

result_imaging_only ==
    [risk_level |-> "Low-Moderate Risk",
     case_control_ratio |-> "Cases (22, 14.3%); Controls (132, 85.7%)",
     explanation |-> "Chest imaging infiltrates, but ventilation <72h + no elderly/comorbidities; low VAP risk."]

\* if fever or wbc_abnormal
symptom_gate_and(f, w) == f /\ w
symptom_gate(f, w) == f \/ w

\* if age_ge65 or has_complication
elderly_gate(a, c) == a \/ c

\* Where the code goes once chest_imaging is known: the first layer
\* (if not chest_imaging) and the second (if ventilation_ge72).
after_imaging_duration_first(imaging, ge72) ==
    IF ge72 THEN "ask_fever"
    ELSE IF ~imaging THEN "report"
    ELSE "ask_age65"

after_imaging(imaging, ge72) ==
    IF ~imaging THEN "report"
    ELSE IF ge72 THEN "ask_fever"
    ELSE "ask_age65"

first_layer_result_by_duration(imaging, ge72, current) ==
    IF ~imaging THEN (IF ge72 THEN result_no_symptoms ELSE result_no_infiltrates)
    ELSE current

first_layer_result(imaging, ge72, current) ==
    IF ~imaging THEN result_no_infiltrates ELSE current

\* The recommendation lines printed for a risk level.
recommendation_high ==
    <<"   - Immediately initiate subglottic secretion drainage (for patients with ventilation >=72h)",
      "   - Maintain head-of-bed elevation at 45deg (or as close as possible if contraindicated)",
      "   - Use a closed endotracheal suctioning system; replace heat and moisture exchangers every 5-7 days",
      "   - Daily monitoring of body temperature, WBC count, and chest imaging changes">>

recommendation_moderate ==
    <<"   - Closely monitor mechanical ventilation duration; prepare for subglottic drainage if >=72h is expected",
      "   - Recheck WBC count and oxygenation index every 2 days",
      "   - Maintain head-of-bed elevation at 30-45deg; avoid supine position">>

recommendation_baseline ==
    <<"   - Routine mechanical ventilation care; replace heat and moisture exchangers weekly (if not contaminated)",
      "   - Monitor WBC count and chest imaging once weekly",
      "   - Immediately recheck relevant indicators if fever (>=38C) occurs">>

recommendation_block_high_only(level) ==
    IF level = "High Risk" THEN recommendation_high
    ELSE IF level = "Moderate Risk" THEN recommendation_moderate
    ELSE recommendation_baseline

recommendation_block(level) ==
    IF level \in {"High Risk", "Moderate-High Risk"} THEN recommendation_high
    ELSE IF level = "Moderate Risk" THEN recommendation_moderate
    ELSE recommendation_baseline

YesNo(b) == IF b THEN "Yes" ELSE "No"

\* The local variable a yes/no prompt assigns.
GateValue(q) ==
    CASE q = "ventilation"  -> ventilation_ge72
      [] q = "imaging"      -> chest_imaging
      [] q = "fever"        -> fever
      [] q = "wbc"          -> wbc_abnormal
      [] q = "oxygen"       -> oxygen_abnormal
      [] q = "age65"        -> age_ge65
      [] q = "complication" -> has_complication

Gates == {"ventilation", "imaging", "fever", "wbc", "oxygen", "age65", "complication"}

\* The answers given during the current pass: a prompt that was not issued
\* has no answer.
PassAnswers ==
    [q \in Gates |-> IF q \in asked
                     THEN (IF GateValue(q) THEN "yes" ELSE "no")
                     ELSE Unset]

\* Before the first pass has ended there is no previous pass.
NoLast ==
    [answers |-> [q \in Gates |-> Unset],
     risk_result |-> [risk_level |-> Unset, case_control_ratio |-> Unset,
                      explanation |-> Unset]]

TreeInit ==
    /\ tpc = "ask_age"
    /\ age = Unset
    /\ ventilation_ge72 = Unset
    /\ chest_imaging = Unset
    /\ fever = Unset
    /\ wbc_abnormal = Unset
    /\ oxygen_abnormal = Unset
    /\ age_ge65 = Unset
    /\ has_complication = Unset
    /\ risk_result = Unset
    /\ asked = {}
    /\ report = Unset
    /\ last = NoLast
    /\ reported = {}

\* 2.1: the age loop; only a digit string of at least 18 leaves it
AskAge ==
    /\ tpc = "ask_age"
    /\ asked' = asked \cup {"age"}
    /\ \E age_input \in TreeAgeInputs :
          IF isdigit(age_input) /\ int(age_input) >= 18
          THEN /\ age' = int(age_input)
               /\ tpc' = "ask_ventilation"
          ELSE /\ age' = IF isdigit(age_input) THEN int(age_input) ELSE age
               /\ tpc' = "ask_age"
    /\ UNCHANGED <<ventilation_ge72, chest_imaging, fever, wbc_abnormal,
                   oxygen_abnormal, age_ge65, has_complication, risk_result,
                   report, last, reported>>

\* 2.2: the ventilation loop
AskVentilation ==
    /\ tpc = "ask_ventilation"
    /\ asked' = asked \cup {"ventilation"}
    /\ \E ventilation_input \in YesNoInputs :
          IF ventilation_input \in {"yes", "no"}
          THEN /\ ventilation_ge72' = (ventilation_input = "yes")
               /\ tpc' = "ask_imaging"
          ELSE UNCHANGED <<ventilation_ge72, tpc>>
    /\ UNCHANGED <<age, chest_imaging, fever, wbc_abnormal, oxygen_abnormal,
                   age_ge65, has_complication, risk_result, report, last, reported>>

\* 2.3: the imaging loop, then the first and second layer of the decision
AskImaging ==
    /\ tpc = "ask_imaging"
    /\ asked' = asked \cup {"imaging"}
    /\ \E imaging_input \in YesNoInputs :
          IF imaging_input \in {"yes", "no"}
          THEN /\ chest_imaging' = (imaging_input = "yes")
               /\ risk_result' = first_layer_result(chest_imaging', ventilation_ge72, risk_result)
               /\ tpc' = after_imaging(chest_imaging', ventilation_ge72)
          ELSE UNCHANGED <<chest_imaging, risk_result, tpc>>
    /\ UNCHANGED <<age, ventilation_ge72, fever, wbc_abnormal, oxygen_abnormal,
                   age_ge65, has_complication, report, last, reported>>

\* 3.1: the fever loop
AskFever ==
    /\ tpc = "ask_fever"
    /\ asked' = asked \cup {"fever"}
    /\ \E fever_input \in YesNoInputs :
          IF fever_input \in {"yes", "no"}
          THEN /\ fever' = (fever_input = "yes")
               /\ tpc' = "ask_wbc"
          ELSE UNCHANGED <<fever, tpc>>
    /\ UNCHANGED <<age, ventilation_ge72, chest_imaging, wbc_abnormal, oxygen_abnormal,
                   age_ge65, has_complication, risk_result, report, last, reported>>

\* AskWbc with the oxygenation answer of an earlier patient reused
AskWbc_oxygen_kept ==
    /\ tpc = "ask_wbc"
    /\ asked' = asked \cup {"wbc"}
    /\ \E wbc_input \in YesNoInputs :
          IF wbc_input \in {"yes", "no"}
          THEN /\ wbc_abnormal' = (wbc_input = "yes")
               /\ IF symptom_gate(fever, wbc_abnormal')
                  THEN /\ risk_result' = result_symptoms
                       /\ tpc' = "report"
                  ELSE IF "Moderate-High Risk" \in reported
                  THEN /\ risk_result' = IF oxygen_abnormal THEN result_oxygen_abnormal
                                         ELSE result_no_symptoms
                       /\ tpc' = "report"
                  ELSE /\ tpc' = "ask_oxygen"
                       /\ UNCHANGED risk_result
          ELSE UNCHANGED <<wbc_abnormal, risk_result, tpc>>
    /\ UNCHANGED <<age, ventilation_ge72, chest_imaging, fever, oxygen_abnormal,
                   age_ge65, has_complication, report, last, reported>>

\* 3.1: the WBC loop, then the third layer (if fever or wbc_abnormal)
AskWbc ==
    /\ tpc = "ask_wbc"
    /\ asked' = asked \cup {"wbc"}
    /\ \E wbc_input \in YesNoInputs :
          IF wbc_input \in {"yes", "no"}
          THEN /\ wbc_abnormal' = (wbc_input = "yes")
               /\ IF symptom_gate(fever, wbc_abnormal')
                  THEN /\ risk_result' = result_symptoms
                       /\ tpc' = "report"
                  ELSE /\ tpc' = "ask_oxygen"
                       /\ UNCHANGED risk_result
          ELSE UNCHANGED <<wbc_abnormal, risk_result, tpc>>
    /\ UNCHANGED <<age, ventilation_ge72, chest_imaging, fever, oxygen_abnormal,
                   age_ge65, has_complication, report, last, reported>>

\* the oxygenation loop, then if oxygen_abnormal
AskOxygen ==
    /\ tpc = "ask_oxygen"
    /\ asked' = asked \cup {"oxygen"}
    /\ \E oxygen_input \in YesNoInputs :
          IF oxygen_input \in {"yes", "no"}
          THEN /\ oxygen_abnormal' = (oxygen_input = "yes")
               /\ risk_result' = IF oxygen_abnormal' THEN result_oxygen_abnormal
                                 ELSE result_no_symptoms
               /\ tpc' = "report"
          ELSE UNCHANGED <<oxygen_abnormal, risk_result, tpc>>
    /\ UNCHANGED <<age, ventilation_ge72, chest_imaging, fever, wbc_abnormal,
                   age_ge65, has_complication, report, last, reported>>

\* 3.2: the age>=65 loop
AskAge65 ==
    /\ tpc = "ask_age65"
    /\ asked' = asked \cup {"age65"}
    /\ \E age_ge65_input \in YesNoInputs :
          IF age_ge65_input \in {"yes", "no"}
          THEN /\ age_ge65' = (age_ge65_input = "yes")
               /\ tpc' = "ask_complication"
          ELSE UNCHANGED <<age_ge65, tpc>>
    /\ UNCHANGED <<age, ventilation_ge72, chest_imaging, fever, wbc_abnormal,
                   oxygen_abnormal, has_complication, risk_result, report, last, reported>>

\* 3.2: the comorbidity loop, then if age_ge65 or has_complication
AskComplication ==
    /\ tpc = "ask_complication"
    /\ asked' = asked \cup {"complication"}
    /\ \E complication_input \in YesNoInputs :
          IF complication_input \in {"yes", "no"}
          THEN /\ has_complication' = (complication_input = "yes")
               /\ risk_result' = IF elderly_gate(age_ge65, has_complication')
                                 THEN result_elderly
                                 ELSE result_imaging_only
               /\ tpc' = "report"
          ELSE UNCHANGED <<has_complication, risk_result, tpc>>
    /\ UNCHANGED <<age, ventilation_ge72, chest_imaging, fever, wbc_abnormal,
                   oxygen_abnormal, age_ge65, report, last, reported>>

\* Step 4: print the report with the recommendation block of the level
PrintReport ==
    /\ tpc = "report"
    /\ report' = [age |-> age,
                  ventilation_ge72 |-> YesNo(ventilation_ge72),
                  chest_imaging |-> YesNo(chest_imaging),
                  risk_level |-> risk_result.risk_level,
                  case_control_ratio |-> risk_result.case_control_ratio,
                  explanation |-> risk_result.explanation,
                  recommendation |-> recommendation_block(risk_result.risk_level)]
    /\ reported' = reported \cup {risk_result.risk_level}
    /\ tpc' = "ask_restart"
    /\ UNCHANGED <<age, ventilation_ge72, chest_imaging, fever, wbc_abnormal,
                   oxygen_abnormal, age_ge65, has_complication, risk_result,
                   asked, last>>

\* Step 5: assess another patient, or return
AskRestart ==
    /\ tpc = "ask_restart"
    /\ \E restart_input \in YesNoInputs :
          IF restart_input = "no" THEN
              /\ tpc' = "exited"
              /\ UNCHANGED <<asked, report, last>>
          ELSE IF restart_input = "yes" THEN
              /\ tpc' = "ask_age"
              /\ last' = [answers |-> PassAnswers, risk_result |-> risk_result]
              /\ asked' = {}
              /\ report' = Unset
          ELSE UNCHANGED <<tpc, asked, report, last>>
    /\ UNCHANGED <<age, ventilation_ge72, chest_imaging, fever, wbc_abnormal,
                   oxygen_abnormal, age_ge65, has_complication, risk_result, reported>>

TreeNext ==
    \/ AskAge
    \/ AskVentilation
    \/ AskImaging
    \/ AskFever
    \/ AskWbc
    \/ AskOxygen
    \/ AskAge65
    \/ AskComplication
    \/ PrintReport
    \/ AskRestart

(***************************************************************************)
(* Specifications.  Each program runs alone; the others stay at rest.      *)
(***************************************************************************)
ScorerIdle ==
    /\ variant = "strategy3" /\ pc = "idle" /\ patient_data = Unset
    /\ risk_score = Unset /\ risk_assessment = Unset /\ output = Unset

BatchIdle ==
    /\ batch_variant = "strategy3" /\ batch_data = <<>> /\ idx = 1
    /\ batch_results = <<>> /\ batch_pc = "idle"

TreeIdle ==
    /\ tpc = "idle" /\ age = Unset /\ ventilation_ge72 = Unset
    /\ chest_imaging = Unset /\ fever = Unset /\ wbc_abnormal = Unset
    /\ oxygen_abnormal = Unset /\ age_ge65 = Unset /\ has_complication = Unset
    /\ risk_result = Unset /\ asked = {} /\ report = Unset /\ last = NoLast
    /\ reported = {}

InitScorer == ScorerInit /\ BatchIdle /\ TreeIdle
NextScorer == ScorerNext /\ UNCHANGED <<batchVars, treeVars>>
SpecScorer == InitScorer /\ [][NextScorer]_vars

InitBatch == BatchInit /\ ScorerIdle /\ TreeIdle
NextBatch == BatchNext /\ UNCHANGED <<scorerVars, treeVars>>
SpecBatch == InitBatch /\ [][NextBatch]_vars

InitTree == TreeInit /\ ScorerIdle /\ BatchIdle
NextTree == TreeNext /\ UNCHANGED <<scorerVars, batchVars>>
SpecTree == InitTree /\ [][NextTree]_vars

(***************************************************************************)
(* Properties of the additive scorer (SpecScorer).                         *)
(***************************************************************************)
\* A valid record: the routes and antiseptics are the listed ones and every
\* yes/no field is yes or no.
InPatientParameters(p) ==
    /\ p.intubation_route \in valid_routes
    /\ p.oral_antiseptic \in valid_antiseptics
    /\ \A field \in {"subglottic_drainage", "closed_suction_system", "fever",
                      "leukocytosis", "chest_radiograph"} : p[field] \in valid_booleans

\* main has a score in hand: calculate_vap_risk has returned.
Scored == pc \in {"determine", "report", "reported"}

\* calculate_vap_risk is at its return statement, all sections done.
AtReturn == pc = "return"

\* main holds the dict of determine_risk_level.
Assessed == pc \in {"report", "reported"}

\* C1: for every valid patient record calculate_vap_risk returns an integer
\* score s with 0 <= s <= 20.
C1_ScoreInRange ==
    (Scored /\ InPatientParameters(patient_data)) =>
        (risk_score \in Int /\ 0 <= risk_score /\ risk_score <= 20)

\* The lower clamp acted: the contributions of a valid record sum to less than 0
\* and 0 was returned.
C1_Witness ==
    /\ pc = "determine"
    /\ variant = "strategy3"
    /\ InPatientParameters(patient_data)
    /\ patient_data.intubation_route = "orotracheal"
    /\ patient_data.bed_head_elevation_deg >= 45
    /\ patient_data.fever = "no"
    /\ patient_data.leukocytosis = "no"
    /\ patient_data.chest_radiograph = "no"
    /\ patient_data.ventilation_duration_h < 24
    /\ risk_score = 0

\* The contribution table of the specification, one entry per factor, each a
\* function of its own field(s).
TableRoute(route) ==
    CASE route = "nasotracheal" -> 3
      [] route = "orotracheal"  -> -2

TableDuration(hours) ==
    CASE hours > 72                 -> 3
      [] hours >= 24 /\ hours <= 72 -> 1
      [] hours < 24                 -> 0

TableDrainage(hours, used) ==
    CASE hours > 72 /\ used = "yes" -> -2
      [] hours > 72 /\ used = "no"  -> 2
      [] hours <= 72                -> 0

TableElevation(deg) ==
    CASE deg >= 45             -> -2
      [] deg < 30              -> 2
      [] deg >= 30 /\ deg < 45 -> 0

TableSuction(used) ==
    CASE used = "yes" -> -1
      [] used = "no"  -> 1

TableAntiseptic(a) ==
    CASE a \in {"chlorhexidine", "povidone-iodine"} -> -1
      [] a = "none"                                 -> 0

TableFlag(flag, weight) ==
    CASE flag = "yes" -> weight
      [] flag = "no"  -> 0

TableSum(p) ==
    TableRoute(p.intubation_route)
    + TableDuration(p.ventilation_duration_h)
    + TableDrainage(p.ventilation_duration_h, p.subglottic_drainage)
    + TableElevation(p.bed_head_elevation_deg)
    + TableSuction(p.closed_suction_system)
    + TableAntiseptic(p.oral_antiseptic)
    + TableFlag(p.fever, 2)
    + TableFlag(p.leukocytosis, 2)
    + TableFlag(p.chest_radiograph, 3)

TableClamp(s) == IF s < 0 THEN 0 ELSE IF s > 20 THEN 20 ELSE s

\* C2: for every valid patient record calculate_vap_risk equals
\* clamp(sum, 0, 20), sum being the total of the table's per-factor
\* contributions; the Scenario A record scores 18.
C2_ScoreMatchesTable ==
    (Scored /\ InPatientParameters(patient_data)) =>
        /\ risk_score = TableClamp(TableSum(patient_data))
        /\ (patient_data = ScenarioA => risk_score = 18)

\* Scenario A has been scored.
C2_Witness ==
    /\ pc = "determine"
    /\ patient_data = ScenarioA
    /\ risk_score = 18

\* The band of a score as the specification states it.
BandOf(s) ==
    CASE s < 5             -> "Low Risk"
      [] 5 <= s /\ s <= 12 -> "Moderate Risk"
      [] s > 12            -> "High Risk"

\* determine_risk_level of strategy3 has returned for risk_score.
Determined ==
    /\ variant = "strategy3"
    /\ pc \in {"report", "reported", "returned"}
    /\ risk_score \in 0 .. 20

\* C3: determine_risk_level (strategy3) returns, for every score in 0..20,
\* exactly one band: Low Risk below 5, Moderate Risk from 5 to 12, High Risk
\* above 12; 4 gives Low, 5 and 12 give Moderate, 13 gives High.
C3_BandOfScore ==
    Determined =>
        /\ Cardinality({b \in {"Low Risk", "Moderate Risk", "High Risk"} :
                            risk_assessment.risk_level = b}) = 1
        /\ risk_assessment.risk_level = BandOf(risk_score)
        /\ (risk_score = 4 => risk_assessment.risk_level = "Low Risk")
        /\ (risk_score = 5 => risk_assessment.risk_level = "Moderate Risk")
        /\ (risk_score = 12 => risk_assessment.risk_level = "Moderate Risk")
        /\ (risk_score = 13 => risk_assessment.risk_level = "High Risk")

\* The upper boundary of the Moderate band has been classified, for a score
\* handed in directly.
C3_Witness ==
    /\ Determined
    /\ pc = "returned"
    /\ risk_score = 12
    /\ risk_assessment.risk_level = "Moderate Risk"

\* C4 as stated: for the Scenario B record the unclamped sum computed by
\* calculate_vap_risk is -4, the returned score is 0 and the level is Low Risk.
C4_ScenarioB_SumMinus4 ==
    /\ (AtReturn /\ patient_data = ScenarioB) => risk_score = -4
    /\ (Scored /\ patient_data = ScenarioB) => risk_score = 0
    /\ (Assessed /\ patient_data = ScenarioB) => risk_assessment.risk_level = "Low Risk"

\* C4 amended: for the Scenario B record the unclamped sum computed by
\* calculate_vap_risk is -5 (-2 route, +1 duration, -2 elevation, -1 closed
\* suction, -1 chlorhexidine), the returned score is 0 and the level is Low Risk.
C4_ScenarioB_SumMinus5 ==
    /\ (AtReturn /\ patient_data = ScenarioB) => risk_score = -5
    /\ (Scored /\ patient_data = ScenarioB) => risk_score = 0
    /\ (Assessed /\ patient_data = ScenarioB) => risk_assessment.risk_level = "Low Risk"

\* Scenario B has gone through every section and is about to be clamped.
C4_Witness ==
    /\ pc = "reported"
    /\ patient_data = ScenarioB
    /\ risk_score = 0
    /\ output.risk_level = "Low Risk"

(***************************************************************************)
(* Properties of the decision tree (SpecTree).                             *)
(***************************************************************************)
\* The layered decision of the current pass has been taken.
Decided == tpc \in {"report", "ask_restart"}

\* The report of the current pass is on the console.
Reported == tpc = "ask_restart"

RiskCategories ==
    {"Low Risk", "Low-Moderate Risk", "Moderate Risk", "Moderate-High Risk", "High Risk"}

\* The risk level as the specification states it, from the gate answers.
TreeLevel ==
    IF ~chest_imaging THEN "Low Risk"
    ELSE IF ventilation_ge72 THEN
        IF fever \/ wbc_abnormal THEN "High Risk"
        ELSE IF oxygen_abnormal THEN "Moderate-High Risk"
        ELSE "Moderate Risk"
    ELSE
        IF age_ge65 \/ has_complication THEN "Moderate Risk"
        ELSE "Low-Moderate Risk"

\* Scenario D: infiltrates, >=72h, no fever, WBC normal, oxygenation low.
ScenarioD ==
    /\ chest_imaging /\ ventilation_ge72
    /\ ~fever /\ ~wbc_abnormal /\ oxygen_abnormal

\* C5: the decision tree's risk level is the stated function of the gate
\* answers; Scenario D gives Moderate-High Risk.
C5_TreeLevel ==
    Decided =>
        /\ risk_result.risk_level = TreeLevel
        /\ (Reported => report.risk_level = TreeLevel)
        /\ ((chest_imaging /\ ventilation_ge72 /\ ScenarioD)
                => risk_result.risk_level = "Moderate-High Risk")

\* Scenario D has been reported.
C5_Witness ==
    /\ Reported
    /\ chest_imaging /\ ventilation_ge72 /\ ScenarioD
    /\ report.risk_level = "Moderate-High Risk"

\* C6: with no infiltrates the result is Low Risk whatever the other inputs
\* are: a pass without infiltrates gives the same level, ratio and
\* explanation as the previous pass without infiltrates, whatever else
\* differs between the two.
C6_NoInfiltratesLow ==
    (Decided /\ ~chest_imaging) =>
        /\ risk_result.risk_level = "Low Risk"
        /\ (Reported => report.risk_level = "Low Risk")
        /\ (last.answers["imaging"] = "no" =>
                /\ risk_result.risk_level = last.risk_result.risk_level
                /\ risk_result.case_control_ratio = last.risk_result.case_control_ratio
                /\ risk_result.explanation = last.risk_result.explanation)

\* Two passes in a row without infiltrates that differ in the ventilation
\* answer, in a session whose earlier passes went down both branches and left
\* their answers behind.
C6_Witness ==
    /\ Reported
    /\ ~chest_imaging
    /\ last.answers["imaging"] = "no"
    /\ last.answers["ventilation"] /= PassAnswers["ventilation"]
    /\ {"High Risk", "Low-Moderate Risk"} \subseteq reported
    /\ report.risk_level = "Low Risk"

\* C7: every pass ends in exactly one of the five risk categories, the same
\* one as the previous pass when the answers are the same, and every one of
\* the five is produced.
C7_OneOfFive ==
    /\ reported \subseteq RiskCategories
    /\ Decided =>
        /\ Cardinality({c \in RiskCategories : risk_result.risk_level = c}) = 1
        /\ (last.answers = PassAnswers =>
                last.risk_result.risk_level = risk_result.risk_level)

\* All five categories have been reported, the last one twice in a row for
\* the same answers.
C7_Witness ==
    /\ Reported
    /\ reported = RiskCategories
    /\ last.answers = PassAnswers

\* C8 as stated: a gate that is not on the path taken is never asked; with no
\* infiltrates the ventilation question is not asked, and the fever/WBC,
\* oxygenation and age>=65/comorbidity questions are asked on their own
\* branch only.
C8_OnlyPathGatesAsked ==
    /\ (Decided /\ ~chest_imaging) => "ventilation" \notin asked
    /\ ("fever" \in asked \/ "wbc" \in asked) => (chest_imaging /\ ventilation_ge72)
    /\ "oxygen" \in asked => (chest_imaging /\ ventilation_ge72 /\ ~fever /\ ~wbc_abnormal)
    /\ ("age65" \in asked \/ "complication" \in asked) => (chest_imaging /\ ~ventilation_ge72)

\* The prompts of the path that the answers select.
PathPrompts ==
    {"age", "ventilation", "imaging"}
    \cup (IF chest_imaging /\ ventilation_ge72 THEN {"fever", "wbc"} ELSE {})
    \cup (IF chest_imaging /\ ventilation_ge72 /\ ~(fever \/ wbc_abnormal)
          THEN {"oxygen"} ELSE {})
    \cup (IF chest_imaging /\ ~ventilation_ge72 THEN {"age65", "complication"} ELSE {})

\* C8 amended: the age, ventilation>=72h and imaging questions are asked on
\* every pass, before any branch is taken (so the ventilation question is
\* asked also when there are no infiltrates); the fever/WBC, oxygenation and
\* age>=65/comorbidity questions are asked on their own branch only, right
\* before the gate that reads them.
C8_LazySupplementaryGates ==
    /\ Decided => asked = PathPrompts
    /\ ("fever" \in asked \/ "wbc" \in asked) => (chest_imaging /\ ventilation_ge72)
    /\ "oxygen" \in asked => (chest_imaging /\ ventilation_ge72 /\ ~fever /\ ~wbc_abnormal)
    /\ ("age65" \in asked \/ "complication" \in asked) => (chest_imaging /\ ~ventilation_ge72)

\* A pass without infiltrates has been reported, and the ventilation question
\* was asked in it.
C8_Witness ==
    /\ Reported
    /\ ~chest_imaging
    /\ "ventilation" \in asked
    /\ "fever" \notin asked

\* C9: High Risk and Moderate-High Risk print the same recommendation block,
\* Moderate Risk its own, Low Risk and Low-Moderate Risk the baseline block;
\* every report carries exactly one of the three.
C9_RecommendationByGroup ==
    /\ Cardinality({recommendation_high, recommendation_moderate,
                    recommendation_baseline}) = 3
    /\ Reported =>
        /\ report.risk_level \in RiskCategories
        /\ (report.risk_level \in {"High Risk", "Moderate-High Risk"}
                => report.recommendation = recommendation_high)
        /\ (report.risk_level = "Moderate Risk"
                => report.recommendation = recommendation_moderate)
        /\ (report.risk_level \in {"Low Risk", "Low-Moderate Risk"}
                => report.recommendation = recommendation_baseline)

\* A Moderate-High Risk report with the block of High Risk.
C9_Witness ==
    /\ Reported
    /\ report.risk_level = "Moderate-High Risk"
    /\ report.recommendation = recommendation_high

(***************************************************************************)
(* Properties of batch_process_patients (SpecBatch).                       *)
(***************************************************************************)
Malformed(data) ==
    {i \in 1..Len(data) : data[i].intubation_route \notin valid_routes}

ErrorEntries(results) ==
    {i \in 1..Len(results) : "error" \in DOMAIN results[i]}

\* C10: a batch of N valid records and one record with an invalid intubation
\* route returns N+1 entries in input order with patient_id the 1-based
\* position, N assessments and exactly one error entry, the one of the
\* malformed record.
C10_OneErrorEntry ==
    (batch_pc = "returned" /\ Cardinality(Malformed(batch_data)) = 1) =>
        /\ Len(batch_results) = Len(batch_data)
        /\ \A i \in 1..Len(batch_results) : batch_results[i].patient_id = i
        /\ ErrorEntries(batch_results) = Malformed(batch_data)
        /\ \A i \in 1..Len(batch_results) :
              i \notin Malformed(batch_data) =>
                  /\ "risk_score" \in DOMAIN batch_results[i]
                  /\ batch_results[i].risk_score
                        = calculate_vap_risk(batch_variant, batch_data[i])

\* The records of a batch whose route or antiseptic is outside the valid sets.
InvalidCategorical(data) ==
    {i \in 1..Len(data) :
        \/ data[i].intubation_route \notin valid_routes
        \/ data[i].oral_antiseptic \notin valid_antiseptics}

\* C11: called with an intubation route or an oral antiseptic outside the
\* valid sets, calculate_vap_risk signals an error and returns no score: the
\* entry of such a record carries an error and no risk_score.
C11_InvalidSignalled ==
    \A i \in 1..Len(batch_results) :
        i \in InvalidCategorical(batch_data) =>
            /\ "error" \in DOMAIN batch_results[i]
            /\ "risk_score" \notin DOMAIN batch_results[i]

\* C12: for a batch of valid records batch_process_patients returns a list
\* of the same length whose k-th entry has patient_id k and the score and
\* risk level that calculate_vap_risk and determine_risk_level give for the
\* k-th record alone, whatever the other records are; an entry appended for
\* a valid record is the entry of that record at every later step.
C12_BatchIndependent ==
    /\ Len(batch_results) <= Len(batch_data)
    /\ \A k \in 1..Len(batch_results) :
          InPatientParameters(batch_data[k]) =>
              /\ batch_results[k].patient_id = k
              /\ batch_results[k].risk_score
                    = calculate_vap_risk(batch_variant, batch_data[k])
              /\ batch_results[k].risk_score = TableClamp(TableSum(batch_data[k]))
              /\ batch_results[k].risk_level
                    = determine_risk_level(batch_variant,
                          calculate_vap_risk(batch_variant, batch_data[k])).risk_level
    /\ (batch_pc = "returned" /\ \A k \in 1..Len(batch_data) : InPatientParameters(batch_data[k]))
          => Len(batch_results) = Len(batch_data)

\* A batch of three valid records has been returned, Scenario B between two
\* records of another score.
C12_Witness ==
    /\ batch_pc = "returned"
    /\ Len(batch_data) = 3
    /\ \A k \in 1..3 : InPatientParameters(batch_data[k])
    /\ batch_data[2] = ScenarioB
    /\ batch_data[1] = ScenarioA
    /\ batch_data[3] /= ScenarioB
    /\ batch_results[2].patient_id = 2
    /\ batch_results[2].risk_score = 0
    /\ batch_results[1].risk_score = 18

(***************************************************************************)
(* The two scorers compared (SpecScorer).                                  *)
(***************************************************************************)
\* The script that is not running.
OtherVariant == IF variant = "strategy3" THEN "strategy_2" ELSE "strategy3"

\* determine_risk_level of the running script has returned for a score in 0..20.
Levelled ==
    /\ pc \in {"report", "reported", "returned"}
    /\ risk_score \in 0 .. 20

\* C13 as stated: for every valid record both scripts return the same score,
\* and for every score in 0..20 the same risk level.
C13_SameScoreAndLevel ==
    /\ Scored => risk_score = calculate_vap_risk(OtherVariant, patient_data)
    /\ Levelled =>
          risk_assessment.risk_level
              = determine_risk_level(OtherVariant, risk_score).risk_level

\* The name strategy3 gives to the band that strategy_2 names.
NameInStrategy3(level) ==
    IF level = "Medium Risk" THEN "Moderate Risk" ELSE level

\* C13 amended: for every valid record both scripts return the same score,
\* and for every score in 0..20 they return the same band (below 5, 5 to 12,
\* above 12) under the same name, except that the band from 5 to 12 is named
\* Medium Risk by strategy_2 and Moderate Risk by strategy3.
C13_SameScoreSameBand ==
    /\ Scored => risk_score = calculate_vap_risk(OtherVariant, patient_data)
    /\ Levelled =>
          /\ NameInStrategy3(risk_assessment.risk_level)
                = NameInStrategy3(determine_risk_level(OtherVariant, risk_score).risk_level)
          /\ risk_assessment.risk_level = BandOf(risk_score)
                <=> (variant = "strategy3" \/ risk_score < 5 \/ risk_score > 12)
          /\ (variant = "strategy_2" /\ 5 <= risk_score /\ risk_score <= 12)
                => risk_assessment.risk_level = "Medium Risk"

\* strategy_2 has scored a valid record 12 and reported it as Medium Risk.
C13_Witness ==
    /\ pc = "reported"
    /\ variant = "strategy_2"
    /\ risk_score = 12
    /\ risk_score = calculate_vap_risk_s3(patient_data)
    /\ output.risk_level = "Medium Risk"

(***************************************************************************)
(* Further properties of the decision tree (SpecTree).                     *)
(***************************************************************************)
\* The previous pass and the current one ended with the same risk level.
SameLevelAsLast ==
    /\ Decided
    /\ last.risk_result.risk_level = risk_result.risk_level

\* C14 as stated: any two evaluations that end with the same risk level
\* carry the same case/control ratio string, whichever path produced it.
C14_RatioPerLevel ==
    SameLevelAsLast =>
        last.risk_result.case_control_ratio = risk_result.case_control_ratio

\* C14 amended: the case/control ratio string is static per terminal of the
\* tree. Two evaluations that end with the same risk level carry the same
\* ratio string, except for Moderate Risk, which two terminals produce with
\* two ratios: "Cases (35, 27.1%); Controls (94, 72.9%)" with ventilation
\* >=72h and "Cases (48, 31.5%); Controls (104, 68.5%)" with ventilation <72h.
C14_RatioPerTerminal ==
    /\ (SameLevelAsLast /\ risk_result.risk_level /= "Moderate Risk") =>
          last.risk_result.case_control_ratio = risk_result.case_control_ratio
    /\ (Decided /\ risk_result.risk_level = "Moderate Risk") =>
          risk_result.case_control_ratio =
              IF ventilation_ge72 THEN "Cases (35, 27.1%); Controls (94, 72.9%)"
              ELSE "Cases (48, 31.5%); Controls (104, 68.5%)"

\* Two passes in a row reported High Risk with the same ratio, reached by
\* different answers.
C14_Witness ==
    /\ Reported
    /\ report.risk_level = "High Risk"
    /\ last.risk_result.risk_level = "High Risk"
    /\ last.answers /= PassAnswers
    /\ last.risk_result.case_control_ratio = report.case_control_ratio

(***************************************************************************)
(* Eligibility (SpecScorer).                                               *)
(***************************************************************************)
\* C15: every caller enforces the age >= 18 gate before scoring: no risk
\* level is computed or reported for a patient whose age is below 18.
C15_NoLevelUnder18 ==
    Assessed => patient_data.age >= 18

(***************************************************************************)
(* Several patients in one session (SpecTree).                             *)
(***************************************************************************)
\* The risk_result that the answers of one pass select, read from the
\* answers alone: a question that was not asked in the pass has no answer.
ResultOfAnswers(ans) ==
    IF ans["imaging"] /= "yes" THEN result_no_infiltrates
    ELSE IF ans["ventilation"] = "yes" THEN
        IF ans["fever"] = "yes" \/ ans["wbc"] = "yes" THEN result_symptoms
        ELSE IF ans["oxygen"] = "yes" THEN result_oxygen_abnormal
        ELSE result_no_symptoms
    ELSE
        IF ans["age65"] = "yes" \/ ans["complication"] = "yes" THEN result_elderly
        ELSE result_imaging_only

\* C16: in a session that assesses several patients, the risk level, ratio,
\* explanation and recommendation reported for a patient depend only on the
\* answers given during that patient's pass: they are the ones those answers
\* select, and equal to the previous patient's when the answers are equal,
\* whatever earlier passes left in the locals.
C16_PassAnswersDecide ==
    Decided =>
        /\ risk_result = ResultOfAnswers(PassAnswers)
        /\ (last.answers = PassAnswers => last.risk_result = risk_result)
        /\ Reported =>
              /\ report.risk_level = ResultOfAnswers(PassAnswers).risk_level
              /\ report.case_control_ratio = ResultOfAnswers(PassAnswers).case_control_ratio
              /\ report.explanation = ResultOfAnswers(PassAnswers).explanation
              /\ report.recommendation
                    = recommendation_block(ResultOfAnswers(PassAnswers).risk_level)

\* A later patient is reported Low-Moderate Risk on the <72h branch while the
\* locals still hold a fever or WBC answer of yes, and an oxygenation answer,
\* from earlier patients.
C16_Witness ==
    /\ Reported
    /\ {"High Risk", "Moderate-High Risk"} \subseteq reported
    /\ "fever" \notin asked
    /\ "oxygen" \notin asked
    /\ (fever \/ wbc_abnormal)
    /\ report.risk_level = "Low-Moderate Risk"

(***************************************************************************)
(* The range of the sum (SpecScorer).                                      *)
(***************************************************************************)
\* The records input_patient_data lets through.
ValidPatientInputs == {p \in PatientInputs : InPatientParameters(p)}

\* The band, under strategy3's names, that the running script gives record p.
BandOfRecord(p) ==
    NameInStrategy3(
        determine_risk_level(variant, calculate_vap_risk(variant, p)).risk_level)

\* C17: for every valid record the unclamped sum computed by
\* calculate_vap_risk lies between -6 and 18, so the upper clamp at 20
\* never changes the result and 19 and 20 are never returned; each of the
\* three bands is nevertheless returned for at least one valid record.
C17_SumBetweenMinus6And18 ==
    /\ (AtReturn /\ InPatientParameters(patient_data)) =>
          /\ -6 <= risk_score /\ risk_score <= 18
          /\ Clamp(variant, risk_score) = Max2(0, risk_score)
    /\ (Scored /\ InPatientParameters(patient_data)) => risk_score \notin {19, 20}
    /\ (pc \in {"mode", "input"}) =>
          \A band \in {"Low Risk", "Moderate Risk", "High Risk"} :
              \E p \in ValidPatientInputs : BandOfRecord(p) = band

\* The largest sum, 18, has been computed for a valid record, returned
\* unchanged and reported as High Risk.
C17_Witness ==
    /\ pc = "reported"
    /\ InPatientParameters(patient_data)
    /\ raw_score_s3(patient_data) = 18
    /\ risk_score = 18
    /\ output.risk_level = "High Risk"

====
